---- MODULE Spec2Model ----
(***************************************************************************)
(* Model of the asset-transfer-basic chaincode (chaincode/smartcontract.go)*)
(* Every handler of SmartContract is one action: the handler runs to       *)
(* completion inside one transaction against the world state.  The stub's  *)
(* calls (GetState, PutState, DelState, GetStateByRange, Next) can each    *)
(* fail; writes of an invocation that returns an error are not committed.  *)
(***************************************************************************)
EXTENDS Integers, Sequences, FiniteSets, TLC

VARIABLES store,   \* committed world state: present key -> stored bytes
          last,    \* the most recent invocation: name, arguments, result, stub calls
          live,    \* keys with a successful create and no successful delete since
          created, \* keys with a successful create at any time
          txs,     \* the invocations running as interleaved transactions
          chain    \* the ledger's version of TxKey and the last committed write to it

vars == <<store, last, live, created, txs, chain>>

----------------------------------------------------------------------------
(* Bounds and input sets *)

\* number of distinct values each argument of an invocation is drawn from
NumPayloads == 2

\* keys passed to the keyed operations: the empty key, a seeded key, a fresh key
OpKeys == {"", "www.google.com", "www.test.com"}

\* iteration order of the range scan over the key space (lexical, as the ledger)
KeyOrder == <<"", "https://scholar.google.com/", "www.bbc.co.uk",
              "www.google.com", "www.napier.ac.uk", "www.test.com">>

\* argument values of Create and Update, and (attribute1) of Transfer
PayloadSeq ==
    << [blocklist |-> "", attribute2 |-> 5, attribute1 |-> "", webfilterlist |-> 300],
       [blocklist |-> "www.xxx.com", attribute2 |-> 10, attribute1 |-> "flag", webfilterlist |-> 400],
       [blocklist |-> "www.instagram.com", attribute2 |-> 15, attribute1 |-> "owner", webfilterlist |-> 700],
       [blocklist |-> "www.xxx.com", attribute2 |-> 5, attribute1 |-> "owner", webfilterlist |-> 300] >>

Args == { PayloadSeq[i] : i \in 1..NumPayloads }

NewValues == { PayloadSeq[i].attribute1 : i \in 1..NumPayloads }

\* number of transactions whose stub calls interleave
NumTxs == 3

Txs == 1..NumTxs

\* the key the interleaved transactions work on
TxKey == "www.test.com"

\* the stub call of an invocation that fails (0: none), among the n calls
\* the invocation can issue
FailAts(n) == 0..n

----------------------------------------------------------------------------
(* type Asset struct: fields in declaration order, with the json tag and    *)
(* whether the Go identifier is exported (starts with an upper-case letter) *)

Asset ==
    << [name |-> "webfilterlist", tag |-> "webfilterlist", exported |-> FALSE, zero |-> 0],
       [name |-> "blocklist",     tag |-> "blocklist",     exported |-> FALSE, zero |-> ""],
       [name |-> "allowlist",     tag |-> "allowlist",     exported |-> FALSE, zero |-> ""],
       [name |-> "attribute1",    tag |-> "attribute1",    exported |-> FALSE, zero |-> ""],
       [name |-> "attribute2",    tag |-> "attribute2",    exported |-> FALSE, zero |-> 0] >>

FieldNames == { Asset[i].name : i \in 1..Len(Asset) }

\* json.Marshal(asset): the exported fields, in declaration order, as
\* <<tag, value>> members; it cannot fail for a struct of strings and ints
Marshal(asset) ==
    LET fs == SelectSeq(Asset, LAMBDA f : f.exported)
    IN  [err |-> "nil", bytes |-> [i \in 1..Len(fs) |-> <<fs[i].tag, asset[fs[i].name]>>]]

\* bytes that are not a JSON object
Malformed == << <<"malformed">> >>

\* json.Unmarshal(bytes, &asset) into a zero Asset: sets the exported fields
\* that have a member in the object, leaves every other field at its zero value
Unmarshal(bytes) ==
    IF bytes = Malformed
    THEN [err |-> "Decoding", asset |-> "none"]
    ELSE [err |-> "nil",
          asset |-> [n \in FieldNames |->
                       LET f == CHOOSE g \in { Asset[i] : i \in 1..Len(Asset) } : g.name = n
                           hits == { i \in 1..Len(bytes) : bytes[i][1] = f.tag }
                       IN  IF f.exported /\ hits # {}
                           THEN bytes[CHOOSE i \in hits : TRUE][2]
                           ELSE f.zero]]

----------------------------------------------------------------------------
(* The stub: each call is numbered within its invocation (n) and fails when *)
(* it is the call chosen to fail (failAt)                                   *)

Call(op, key, ok) == [op |-> op, key |-> key, ok |-> ok]

GetState(state, failAt, n, key) ==
    [err   |-> IF failAt = n THEN "fault" ELSE "nil",
     found |-> failAt # n /\ key \in DOMAIN state,
     value |-> IF failAt # n /\ key \in DOMAIN state THEN state[key] ELSE <<>>,
     calls |-> << Call("GetState", key, failAt # n) >>]

PutState(failAt, n, key, value) ==
    [err    |-> IF failAt = n THEN "fault" ELSE "nil",
     writes |-> IF failAt = n THEN <<>> ELSE << [op |-> "put", key |-> key, value |-> value] >>,
     calls  |-> << Call("PutState", key, failAt # n) >>]

DelState(failAt, n, key) ==
    [err    |-> IF failAt = n THEN "fault" ELSE "nil",
     writes |-> IF failAt = n THEN <<>> ELSE << [op |-> "del", key |-> key, value |-> <<>>] >>,
     calls  |-> << Call("DelState", key, failAt # n) >>]

\* what a handler hands back: its error, its value, the writes it issued and
\* the stub calls it made
Ret(err, val, writes, calls) == [err |-> err, val |-> val, writes |-> writes, calls |-> calls]

----------------------------------------------------------------------------
(* The handlers of SmartContract.  state is the committed world state the   *)
(* invocation reads, failAt the stub call that fails in it.                 *)

\* the constant assets of InitLedger
assets ==
    << [allowlist |-> "www.google.com", blocklist |-> "", attribute2 |-> 5, attribute1 |-> "", webfilterlist |-> 300],
       [allowlist |-> "", blocklist |-> "www.xxx.com", attribute2 |-> 5, attribute1 |-> "", webfilterlist |-> 400],
       [allowlist |-> "www.bbc.co.uk", blocklist |-> "", attribute2 |-> 10, attribute1 |-> "", webfilterlist |-> 500],
       [allowlist |-> "https://scholar.google.com/", blocklist |-> "", attribute2 |-> 10, attribute1 |-> "", webfilterlist |-> 600],
       [allowlist |-> "", blocklist |-> "www.instagram.com", attribute2 |-> 15, attribute1 |-> "", webfilterlist |-> 700],
       [allowlist |-> "www.napier.ac.uk", blocklist |-> "", attribute2 |-> 15, attribute1 |-> "", webfilterlist |-> 800] >>

\* the loop of InitLedger that goes on to the next asset when PutState fails
RECURSIVE InitLoop_IgnorePutError(_, _, _, _)
InitLoop_IgnorePutError(i, failAt, writes, calls) ==
    IF i > Len(assets)
    THEN Ret("nil", "none", writes, calls)
    ELSE LET asset == assets[i]
             m     == Marshal(asset)
             put   == PutState(failAt, i, asset.allowlist, m.bytes)
         IN  IF m.err # "nil" THEN Ret("Encoding", "none", writes, calls)
             ELSE InitLoop_IgnorePutError(i + 1, failAt, writes \o put.writes, calls \o put.calls)

\* the loop of InitLedger from the i-th asset on: marshal, put, stop at the
\* first error; no existence check
RECURSIVE InitLoop(_, _, _, _)
InitLoop(i, failAt, writes, calls) ==
    IF i > Len(assets)
    THEN Ret("nil", "none", writes, calls)
    ELSE LET asset == assets[i]
             m     == Marshal(asset)
             put   == PutState(failAt, i, asset.allowlist, m.bytes)
         IN  IF m.err # "nil" THEN Ret("Encoding", "none", writes, calls)
             ELSE IF put.err # "nil"
                  THEN Ret("StoreWrite", "none", writes \o put.writes, calls \o put.calls)
                  ELSE InitLoop(i + 1, failAt, writes \o put.writes, calls \o put.calls)

InitLedger(state, failAt) == InitLoop(1, failAt, <<>>, <<>>)

\* AssetExists with the nil test inverted (assetJSON == nil)
AssetExists_Inverted(state, failAt, n, allowlist) ==
    LET get == GetState(state, failAt, n, allowlist)
    IN  IF get.err # "nil"
        THEN Ret("StoreRead", FALSE, <<>>, get.calls)
        ELSE Ret("nil", ~get.found, <<>>, get.calls)

\* AssetExists is the n-th stub call of its caller
AssetExists(state, failAt, n, allowlist) ==
    LET get == GetState(state, failAt, n, allowlist)
    IN  IF get.err # "nil"
        THEN Ret("StoreRead", FALSE, <<>>, get.calls)
        ELSE Ret("nil", get.found, <<>>, get.calls)

\* CreateAsset that puts first and tests for the duplicate afterwards
CreateAsset_PutThenCheck(state, failAt, allowlist, blocklist, attribute2, attribute1, webfilterlist) ==
    LET asset == [allowlist |-> allowlist, blocklist |-> blocklist, attribute2 |-> attribute2,
                  attribute1 |-> attribute1, webfilterlist |-> webfilterlist]
        m   == Marshal(asset)
        put == PutState(failAt, 1, allowlist, m.bytes)
        ex  == AssetExists(state, failAt, 2, allowlist)
    IN  IF m.err # "nil" THEN Ret("Encoding", "none", <<>>, <<>>)
        ELSE IF put.err # "nil" THEN Ret("StoreWrite", "none", <<>>, put.calls)
        ELSE IF ex.err # "nil" THEN Ret(ex.err, "none", put.writes, put.calls \o ex.calls)
        ELSE IF ex.val THEN Ret("DuplicateKey", "none", put.writes, put.calls \o ex.calls)
        ELSE Ret("nil", "none", put.writes, put.calls \o ex.calls)

\* CreateAsset without the "already exists" return
CreateAsset_NoExistsCheck(state, failAt, allowlist, blocklist, attribute2, attribute1, webfilterlist) ==
    LET ex == AssetExists(state, failAt, 1, allowlist)
        asset == [allowlist |-> allowlist, blocklist |-> blocklist, attribute2 |-> attribute2,
                  attribute1 |-> attribute1, webfilterlist |-> webfilterlist]
        m   == Marshal(asset)
        put == PutState(failAt, 2, allowlist, m.bytes)
    IN  IF ex.err # "nil" THEN Ret(ex.err, "none", <<>>, ex.calls)
        ELSE IF m.err # "nil" THEN Ret("Encoding", "none", <<>>, ex.calls)
        ELSE Ret(IF put.err # "nil" THEN "StoreWrite" ELSE "nil", "none",
                 put.writes, ex.calls \o put.calls)

CreateAsset(state, failAt, allowlist, blocklist, attribute2, attribute1, webfilterlist) ==
    LET ex == AssetExists(state, failAt, 1, allowlist)
        asset == [allowlist |-> allowlist, blocklist |-> blocklist, attribute2 |-> attribute2,
                  attribute1 |-> attribute1, webfilterlist |-> webfilterlist]
        m   == Marshal(asset)
        put == PutState(failAt, 2, allowlist, m.bytes)
    IN  IF ex.err # "nil" THEN Ret(ex.err, "none", <<>>, ex.calls)
        ELSE IF ex.val THEN Ret("DuplicateKey", "none", <<>>, ex.calls)
        ELSE IF m.err # "nil" THEN Ret("Encoding", "none", <<>>, ex.calls)
        ELSE Ret(IF put.err # "nil" THEN "StoreWrite" ELSE "nil", "none",
                 put.writes, ex.calls \o put.calls)

\* ReadAsset is called by TransferAsset too: its GetState is stub call n
ReadAsset(state, failAt, n, allowlist) ==
    LET get == GetState(state, failAt, n, allowlist)
        u   == Unmarshal(get.value)
    IN  IF get.err # "nil" THEN Ret("StoreRead", "none", <<>>, get.calls)
        ELSE IF ~get.found THEN Ret("NotFound", "none", <<>>, get.calls)
        ELSE IF u.err # "nil" THEN Ret("Decoding", "none", <<>>, get.calls)
        ELSE Ret("nil", u.asset, <<>>, get.calls)

\* UpdateAsset that puts without calling AssetExists
UpdateAsset_BlindPut(state, failAt, allowlist, blocklist, attribute2, attribute1, webfilterlist) ==
    LET asset == [allowlist |-> allowlist, blocklist |-> blocklist, attribute2 |-> attribute2,
                  attribute1 |-> attribute1, webfilterlist |-> webfilterlist]
        m   == Marshal(asset)
        put == PutState(failAt, 1, allowlist, m.bytes)
    IN  IF m.err # "nil" THEN Ret("Encoding", "none", <<>>, <<>>)
        ELSE Ret(IF put.err # "nil" THEN "StoreWrite" ELSE "nil", "none", put.writes, put.calls)

\* UpdateAsset without the "does not exist" return
UpdateAsset_Upsert(state, failAt, allowlist, blocklist, attribute2, attribute1, webfilterlist) ==
    LET ex == AssetExists(state, failAt, 1, allowlist)
        asset == [allowlist |-> allowlist, blocklist |-> blocklist, attribute2 |-> attribute2,
                  attribute1 |-> attribute1, webfilterlist |-> webfilterlist]
        m   == Marshal(asset)
        put == PutState(failAt, 2, allowlist, m.bytes)
    IN  IF ex.err # "nil" THEN Ret(ex.err, "none", <<>>, ex.calls)
        ELSE IF m.err # "nil" THEN Ret("Encoding", "none", <<>>, ex.calls)
        ELSE Ret(IF put.err # "nil" THEN "StoreWrite" ELSE "nil", "none",
                 put.writes, ex.calls \o put.calls)

UpdateAsset(state, failAt, allowlist, blocklist, attribute2, attribute1, webfilterlist) ==
    LET ex == AssetExists(state, failAt, 1, allowlist)
        asset == [allowlist |-> allowlist, blocklist |-> blocklist, attribute2 |-> attribute2,
                  attribute1 |-> attribute1, webfilterlist |-> webfilterlist]
        m   == Marshal(asset)
        put == PutState(failAt, 2, allowlist, m.bytes)
    IN  IF ex.err # "nil" THEN Ret(ex.err, "none", <<>>, ex.calls)
        ELSE IF ~ex.val THEN Ret("NotFound", "none", <<>>, ex.calls)
        ELSE IF m.err # "nil" THEN Ret("Encoding", "none", <<>>, ex.calls)
        ELSE Ret(IF put.err # "nil" THEN "StoreWrite" ELSE "nil", "none",
                 put.writes, ex.calls \o put.calls)

\* DeleteAsset that returns nil without calling DelState
DeleteAsset_NoDelState(state, failAt, allowlist) ==
    LET ex  == AssetExists(state, failAt, 1, allowlist)
    IN  IF ex.err # "nil" THEN Ret(ex.err, "none", <<>>, ex.calls)
        ELSE IF ~ex.val THEN Ret("NotFound", "none", <<>>, ex.calls)
        ELSE Ret("nil", "none", <<>>, ex.calls)

DeleteAsset(state, failAt, allowlist) ==
    LET ex  == AssetExists(state, failAt, 1, allowlist)
        del == DelState(failAt, 2, allowlist)
    IN  IF ex.err # "nil" THEN Ret(ex.err, "none", <<>>, ex.calls)
        ELSE IF ~ex.val THEN Ret("NotFound", "none", <<>>, ex.calls)
        ELSE Ret(IF del.err # "nil" THEN "StoreWrite" ELSE "nil", "none",
                 del.writes, ex.calls \o del.calls)

\* TransferAsset that puts under the decoded asset's allowlist field instead
\* of the allowlist parameter
TransferAsset_PutDecodedKey(state, failAt, allowlist, newattribute1) ==
    LET rd == ReadAsset(state, failAt, 1, allowlist)
        oldattribute1 == rd.val.attribute1
        asset == [rd.val EXCEPT !.attribute1 = newattribute1]
        m   == Marshal(asset)
        put == PutState(failAt, 2, asset.allowlist, m.bytes)
    IN  IF rd.err # "nil" THEN Ret(rd.err, "", <<>>, rd.calls)
        ELSE IF m.err # "nil" THEN Ret("Encoding", "", <<>>, rd.calls)
        ELSE IF put.err # "nil" THEN Ret("StoreWrite", "", <<>>, rd.calls \o put.calls)
        ELSE Ret("nil", oldattribute1, put.writes, rd.calls \o put.calls)

TransferAsset(state, failAt, allowlist, newattribute1) ==
    LET rd == ReadAsset(state, failAt, 1, allowlist)
        oldattribute1 == rd.val.attribute1
        asset == [rd.val EXCEPT !.attribute1 = newattribute1]
        m   == Marshal(asset)
        put == PutState(failAt, 2, allowlist, m.bytes)
    IN  IF rd.err # "nil" THEN Ret(rd.err, "", <<>>, rd.calls)
        ELSE IF m.err # "nil" THEN Ret("Encoding", "", <<>>, rd.calls)
        ELSE IF put.err # "nil" THEN Ret("StoreWrite", "", <<>>, rd.calls \o put.calls)
        ELSE Ret("nil", oldattribute1, put.writes, rd.calls \o put.calls)

\* the keys of state in the order the range iterator yields them
ScanKeys(state) == SelectSeq(KeyOrder, LAMBDA k : k \in DOMAIN state)

\* the loop of GetAllAssets with the final return inside the for body: it
\* returns after the first entry
RECURSIVE ScanLoop_ReturnInLoop(_, _, _, _, _)
ScanLoop_ReturnInLoop(state, failAt, i, found, calls) ==
    LET keys == ScanKeys(state)
        done == calls \o << Call("Close", "", TRUE) >>
    IN  IF i > Len(keys)
        THEN Ret("nil", found, <<>>, done)
        ELSE LET nxt == Call("Next", keys[i], failAt # i + 1)
                 u   == Unmarshal(state[keys[i]])
             IN  IF failAt = i + 1
                 THEN Ret("StoreRead", <<>>, <<>>, Append(calls, nxt) \o << Call("Close", "", TRUE) >>)
                 ELSE IF u.err # "nil"
                      THEN Ret("Decoding", <<>>, <<>>, Append(calls, nxt) \o << Call("Close", "", TRUE) >>)
                      ELSE Ret("nil", Append(found, u.asset), <<>>,
                               Append(calls, nxt) \o << Call("Close", "", TRUE) >>)

\* the loop of GetAllAssets that skips a value it cannot decode (continue)
RECURSIVE ScanLoop_SkipMalformed(_, _, _, _, _)
ScanLoop_SkipMalformed(state, failAt, i, found, calls) ==
    LET keys == ScanKeys(state)
        done == calls \o << Call("Close", "", TRUE) >>
    IN  IF i > Len(keys)
        THEN Ret("nil", found, <<>>, done)
        ELSE LET nxt == Call("Next", keys[i], failAt # i + 1)
                 u   == Unmarshal(state[keys[i]])
             IN  IF failAt = i + 1
                 THEN Ret("StoreRead", <<>>, <<>>, Append(calls, nxt) \o << Call("Close", "", TRUE) >>)
                 ELSE ScanLoop_SkipMalformed(state, failAt, i + 1,
                                             IF u.err # "nil" THEN found ELSE Append(found, u.asset),
                                             Append(calls, nxt))

\* the loop of GetAllAssets with Close called at the end of the function
\* instead of deferred: the error returns skip it
RECURSIVE ScanLoop_CloseAtEnd(_, _, _, _, _)
ScanLoop_CloseAtEnd(state, failAt, i, found, calls) ==
    LET keys == ScanKeys(state)
        done == calls \o << Call("Close", "", TRUE) >>
    IN  IF i > Len(keys)
        THEN Ret("nil", found, <<>>, done)
        ELSE LET nxt == Call("Next", keys[i], failAt # i + 1)
                 u   == Unmarshal(state[keys[i]])
             IN  IF failAt = i + 1
                 THEN Ret("StoreRead", <<>>, <<>>, Append(calls, nxt))
                 ELSE IF u.err # "nil"
                      THEN Ret("Decoding", <<>>, <<>>, Append(calls, nxt))
                      ELSE ScanLoop_CloseAtEnd(state, failAt, i + 1, Append(found, u.asset),
                                               Append(calls, nxt))

\* the loop of GetAllAssets from the i-th entry on; Next is stub call i + 1;
\* the deferred Close runs on every return
RECURSIVE ScanLoop(_, _, _, _, _)
ScanLoop(state, failAt, i, found, calls) ==
    LET keys == ScanKeys(state)
        done == calls \o << Call("Close", "", TRUE) >>
    IN  IF i > Len(keys)
        THEN Ret("nil", found, <<>>, done)
        ELSE LET nxt == Call("Next", keys[i], failAt # i + 1)
                 u   == Unmarshal(state[keys[i]])
             IN  IF failAt = i + 1
                 THEN Ret("StoreRead", <<>>, <<>>, Append(calls, nxt) \o << Call("Close", "", TRUE) >>)
                 ELSE IF u.err # "nil"
                      THEN Ret("Decoding", <<>>, <<>>, Append(calls, nxt) \o << Call("Close", "", TRUE) >>)
                      ELSE ScanLoop(state, failAt, i + 1, Append(found, u.asset), Append(calls, nxt))

GetAllAssets(state, failAt) ==
    LET range == Call("GetStateByRange", "", failAt # 1)
    IN  IF failAt = 1
        THEN Ret("StoreRead", <<>>, <<>>, << range >>)
        ELSE ScanLoop(state, failAt, 1, <<>>, << range >>)

----------------------------------------------------------------------------
(* The host: an invocation that returns no error has its writes committed,  *)
(* in the order issued; the writes of a failed invocation are dropped       *)

RECURSIVE ApplyWrites(_, _)
ApplyWrites(state, writes) ==
    IF writes = <<>> THEN state
    ELSE LET w == Head(writes)
             s == IF w.op = "put"
                  THEN [k \in DOMAIN state \cup {w.key} |-> IF k = w.key THEN w.value ELSE state[k]]
                  ELSE [k \in DOMAIN state \ {w.key} |-> state[k]]
         IN  ApplyWrites(s, Tail(writes))

Commit(state, r) == IF r.err = "nil" THEN ApplyWrites(state, r.writes) ELSE state

Invocation(name, key, args, r) ==
    [name |-> name, key |-> key, args |-> args, err |-> r.err, val |-> r.val, calls |-> r.calls]

NoInvocation ==
    [name |-> "none", key |-> "", args |-> "none", err |-> "nil", val |-> "none", calls |-> <<>>]

\* a transaction that has not been proposed
NoTx ==
    [pc |-> "idle", name |-> "none", args |-> "none", readVer |-> 0, seen |-> <<>>,
     err |-> "nil", val |-> "none", writes |-> <<>>, prevWritten |-> "none"]

NoChain == [ver |-> 0, written |-> "none"]

\* the keys a successful invocation creates and deletes
Record(name, key, args, r, creates, deletes) ==
    /\ last' = Invocation(name, key, args, r)
    /\ store' = Commit(store, r)
    /\ live' = IF r.err = "nil" THEN (live \cup creates) \ deletes ELSE live
    /\ created' = IF r.err = "nil" THEN created \cup creates ELSE created
    /\ UNCHANGED <<txs, chain>>

----------------------------------------------------------------------------
Init ==
    /\ store = <<>>
    /\ last = NoInvocation
    /\ live = {}
    /\ created = {}
    /\ txs = [t \in Txs |-> NoTx]
    /\ chain = NoChain

InvokeInitLedger ==
    \E failAt \in FailAts(Len(assets)) :
        Record("InitLedger", "", "none", InitLedger(store, failAt),
               { assets[i].allowlist : i \in 1..Len(assets) }, {})

InvokeCreateAsset ==
    \E failAt \in FailAts(2), k \in OpKeys, a \in Args :
        Record("CreateAsset", k, a,
               CreateAsset(store, failAt, k, a.blocklist, a.attribute2, a.attribute1, a.webfilterlist),
               {k}, {})

InvokeReadAsset ==
    \E failAt \in FailAts(1), k \in OpKeys :
        Record("ReadAsset", k, "none", ReadAsset(store, failAt, 1, k), {}, {})

InvokeUpdateAsset ==
    \E failAt \in FailAts(2), k \in OpKeys, a \in Args :
        Record("UpdateAsset", k, a,
               UpdateAsset(store, failAt, k, a.blocklist, a.attribute2, a.attribute1, a.webfilterlist),
               {}, {})

InvokeDeleteAsset ==
    \E failAt \in FailAts(2), k \in OpKeys :
        Record("DeleteAsset", k, "none", DeleteAsset(store, failAt, k), {}, {k})

InvokeAssetExists ==
    \E failAt \in FailAts(1), k \in OpKeys :
        Record("AssetExists", k, "none", AssetExists(store, failAt, 1, k), {}, {})

InvokeTransferAsset ==
    \E failAt \in FailAts(2), k \in OpKeys, v \in NewValues :
        Record("TransferAsset", k, v, TransferAsset(store, failAt, k, v), {}, {})

InvokeGetAllAssets ==
    \E failAt \in FailAts(Cardinality(DOMAIN store) + 1) :
        Record("GetAllAssets", "", "none", GetAllAssets(store, failAt), {}, {})

Next ==
    \/ InvokeInitLedger
    \/ InvokeCreateAsset
    \/ InvokeReadAsset
    \/ InvokeUpdateAsset
    \/ InvokeDeleteAsset
    \/ InvokeAssetExists
    \/ InvokeTransferAsset
    \/ InvokeGetAllAssets

Spec == Init /\ [][Next]_vars

\* keys whose value may predate the contract (written by another version of
\* the chaincode in the same namespace)
LegacyKeys == {"www.google.com", "www.test.com"}

\* the world state holds arbitrary bytes under some keys when the contract
\* starts: well-formed ({}) or not JSON at all
InitAnyStore ==
    /\ \E S \in SUBSET LegacyKeys : store \in [S -> {Marshal(assets[1]).bytes, Malformed}]
    /\ last = NoInvocation
    /\ live = DOMAIN store
    /\ created = DOMAIN store
    /\ txs = [t \in Txs |-> NoTx]
    /\ chain = NoChain

SpecAnyStore == InitAnyStore /\ [][Next]_vars

----------------------------------------------------------------------------
(* Invocations on TxKey as separate transactions.  A transaction's GetState *)
(* reads the committed state and notes the version read; its PutState goes  *)
(* to its write set; the host commits it only if TxKey was not written by a *)
(* transaction committed after the read.                                    *)

\* the client proposes CreateAsset(TxKey, ...) or TransferAsset(TxKey, v)
TxStart(t) ==
    /\ txs[t].pc = "idle"
    /\ \/ \E a \in Args :
             txs' = [txs EXCEPT ![t] = [@ EXCEPT !.pc = "get", !.name = "CreateAsset", !.args = a]]
       \/ \E v \in NewValues :
             txs' = [txs EXCEPT ![t] = [@ EXCEPT !.pc = "get", !.name = "TransferAsset", !.args = v]]
    /\ UNCHANGED <<store, last, live, created, chain>>

\* the handler as it runs on the state its GetState saw
TxRun(tx, seen) ==
    IF tx.name = "CreateAsset"
    THEN CreateAsset(seen, 0, TxKey, tx.args.blocklist, tx.args.attribute2,
                     tx.args.attribute1, tx.args.webfilterlist)
    ELSE TransferAsset(seen, 0, TxKey, tx.args)

\* the handler's GetState (in AssetExists or ReadAsset): it returns with an
\* error when the key is present (Create) or absent or malformed (Transfer)
TxGet(t) ==
    /\ txs[t].pc = "get"
    /\ LET r == TxRun(txs[t], store)
       IN  txs' = [txs EXCEPT ![t] =
                     [@ EXCEPT !.pc = IF r.err = "nil" THEN "put" ELSE "failed",
                               !.readVer = chain.ver,
                               !.seen = store,
                               !.err = IF r.err = "nil" THEN @ ELSE r.err]]
    /\ UNCHANGED <<store, last, live, created, chain>>

\* the handler's PutState and return: the write set and the response
TxPut(t) ==
    /\ txs[t].pc = "put"
    /\ LET r == TxRun(txs[t], txs[t].seen)
       IN  txs' = [txs EXCEPT ![t] =
                     [@ EXCEPT !.pc = "returned", !.err = r.err, !.val = r.val,
                               !.writes = r.writes]]
    /\ UNCHANGED <<store, last, live, created, chain>>

\* the attribute1 of the record a transaction puts
Attribute1Put(tx) == IF tx.name = "CreateAsset" THEN tx.args.attribute1 ELSE tx.args

\* the host validates the read set and commits or invalidates
TxCommit(t) ==
    /\ txs[t].pc = "returned"
    /\ IF txs[t].readVer = chain.ver
       THEN /\ store' = ApplyWrites(store, txs[t].writes)
            /\ chain' = [ver |-> chain.ver + 1, written |-> Attribute1Put(txs[t])]
            /\ txs' = [txs EXCEPT ![t] = [@ EXCEPT !.pc = "committed",
                                                   !.prevWritten = chain.written]]
       ELSE /\ txs' = [txs EXCEPT ![t] = [@ EXCEPT !.pc = "invalid"]]
            /\ UNCHANGED <<store, chain>>
    /\ UNCHANGED <<last, live, created>>

NextTx == \E t \in Txs : TxStart(t) \/ TxGet(t) \/ TxPut(t) \/ TxCommit(t)

SpecTx == Init /\ [][NextTx]_vars

----------------------------------------------------------------------------
(* Properties *)

\* the record Create and Update build from their arguments
Rec(k, a) ==
    [allowlist |-> k, blocklist |-> a.blocklist, attribute2 |-> a.attribute2,
     attribute1 |-> a.attribute1, webfilterlist |-> a.webfilterlist]

\* no stub call of the invocation failed
NoFault(inv) == \A i \in 1..Len(inv.calls) : inv.calls[i].ok

Succeeded(name) == last.name = name /\ last.err = "nil"

\* C1: after Create(k, blocklist, attribute2, attribute1, webfilterlist)
\* succeeds, a Read(k) succeeds and returns exactly allowlist = k and the
\* four values given to Create.
C1_CreateThenRead ==
    (Succeeded("CreateAsset") /\ last.key # "") =>
        LET rd == ReadAsset(store, 0, 1, last.key)
        IN  rd.err = "nil" /\ rd.val = Rec(last.key, last.args)

\* the records an invocation marshalled
Encoded(inv) ==
    IF inv.name \in {"CreateAsset", "UpdateAsset"} /\ Len(inv.calls) = 2
    THEN { Rec(inv.key, inv.args) }
    ELSE IF inv.name = "InitLedger"
         THEN { assets[i] : i \in 1..Len(inv.calls) }
         ELSE {}

\* C2: the serialization is lossless: decoding the bytes produced by encoding
\* a record r yields r in all five fields, so records that differ in a field
\* have different encodings.
C2_RoundTrip ==
    /\ \A r \in Encoded(last) :
          LET u == Unmarshal(Marshal(r).bytes) IN u.err = "nil" /\ u.asset = r
    /\ \A r1 \in Encoded(last) :
          \A r2 \in Encoded(last) \cup { Rec(k, a) : k \in OpKeys, a \in Args } :
             r1 # r2 => Marshal(r1).bytes # Marshal(r2).bytes

\* C3: Transfer(k, newValue) on a present key returns the attribute1 the
\* record at k had just before the call, and a Read(k) right after returns
\* that record with attribute1 = newValue and every other field unchanged.
C3_TransferThenRead ==
    [][ (last'.name = "TransferAsset" /\ last'.err = "nil" /\ last'.key # "") =>
           LET before == ReadAsset(store, 0, 1, last'.key)
               after  == ReadAsset(store', 0, 1, last'.key)
           IN  /\ last'.val = before.val.attribute1
               /\ after.err = "nil"
               /\ after.val = [before.val EXCEPT !.attribute1 = last'.args]
               /\ after.val.allowlist = last'.key ]_vars

\* C4: after Update(k, blocklist, attribute2, attribute1, webfilterlist)
\* succeeds, Read(k) returns exactly allowlist = k and the four given values
\* (so no mix of old and new fields is observable).
C4_UpdateThenRead ==
    (Succeeded("UpdateAsset") /\ last.key # "") =>
        LET rd == ReadAsset(store, 0, 1, last.key)
        IN  rd.err = "nil" /\ rd.val = Rec(last.key, last.args)

\* C5: Create on a key that is present fails with the duplicate-key error,
\* issues no write, and leaves the stored value as it was.
C5_CreateDuplicate ==
    [][ (last'.name = "CreateAsset" /\ last'.key \in DOMAIN store /\ NoFault(last')) =>
           /\ last'.err = "DuplicateKey"
           /\ \A i \in 1..Len(last'.calls) : last'.calls[i].op = "GetState"
           /\ store' = store ]_vars

C5_Witness ==
    /\ last.name = "CreateAsset" /\ last.err = "DuplicateKey"
    /\ last.key \in DOMAIN store /\ NoFault(last)

\* C6: for every key never created, whatever was done to other keys:
\* Exists returns false with no error, and Read, Update and Delete each fail
\* with the not-found error.
C6_NeverCreated ==
    /\ \A k \in { KeyOrder[i] : i \in 1..Len(KeyOrder) } \ created :
          /\ AssetExists(store, 0, 1, k).err = "nil"
          /\ AssetExists(store, 0, 1, k).val = FALSE
          /\ ReadAsset(store, 0, 1, k).err = "NotFound"
          /\ DeleteAsset(store, 0, k).err = "NotFound"
          /\ \A a \in Args :
                UpdateAsset(store, 0, k, a.blocklist, a.attribute2, a.attribute1,
                            a.webfilterlist).err = "NotFound"
    /\ (last.key \notin created /\ NoFault(last)) =>
          /\ last.name = "AssetExists" => (last.err = "nil" /\ last.val = FALSE)
          /\ last.name \in {"ReadAsset", "UpdateAsset", "DeleteAsset"} => last.err = "NotFound"

C6_Witness ==
    /\ last.name \in {"ReadAsset", "UpdateAsset", "DeleteAsset"}
    /\ last.key \notin created /\ NoFault(last) /\ last.err = "NotFound"
    /\ created # {}

\* C7: after Delete(k) succeeds, with nothing in between, Read(k) fails with
\* the not-found error, Exists(k) is false and a second Delete(k) fails with
\* the not-found error.
C7_DeleteThenAbsent ==
    Succeeded("DeleteAsset") =>
        /\ ReadAsset(store, 0, 1, last.key).err = "NotFound"
        /\ AssetExists(store, 0, 1, last.key).err = "nil"
        /\ AssetExists(store, 0, 1, last.key).val = FALSE
        /\ DeleteAsset(store, 0, last.key).err = "NotFound"

C7_Witness == Succeeded("DeleteAsset") /\ Len(last.calls) = 2 /\ store # <<>>

\* C8: after Initialize succeeds on an empty store, GetAll returns exactly
\* the six seeded records (as a set, field for field) and Exists is true for
\* the key of each of them.
C8_InitThenGetAll ==
    [][ (last'.name = "InitLedger" /\ last'.err = "nil" /\ store = <<>>) =>
           LET all == GetAllAssets(store', 0)
           IN  /\ all.err = "nil"
               /\ Len(all.val) = 6
               /\ { all.val[i] : i \in 1..Len(all.val) } = { assets[i] : i \in 1..Len(assets) }
               /\ \A i \in 1..Len(assets) :
                     /\ AssetExists(store', 0, 1, assets[i].allowlist).err = "nil"
                     /\ AssetExists(store', 0, 1, assets[i].allowlist).val ]_vars

\* C9: a key is present exactly when a create of it (Create or an Initialize
\* seed) succeeded and no Delete of it succeeded since; Update and Transfer
\* never change which keys are present.
C9_Lifecycle ==
    /\ [](DOMAIN store = live)
    /\ [][ last'.name \in {"UpdateAsset", "TransferAsset"} =>
              DOMAIN store' = DOMAIN store ]_vars

C9_Witness ==
    /\ Succeeded("UpdateAsset")
    /\ created \ live # {}
    /\ live # {}

\* C10: the primary key is non-empty and unique: no record is stored under
\* the empty key, no invocation issues a write with the empty key, and the
\* keys written by Initialize are pairwise distinct.
C10_KeyNonEmptyUnique ==
    /\ "" \notin DOMAIN store
    /\ \A i \in 1..Len(last.calls) :
          last.calls[i].op = "PutState" => last.calls[i].key # ""
    /\ last.name = "InitLedger" =>
          \A i, j \in 1..Len(last.calls) :
             i # j => last.calls[i].key # last.calls[j].key

\* C11: the key is also a payload field: for every key k present in the
\* store, the record decoded from the value at k, as Read(k) and GetAll
\* return it, has allowlist = k.
C11_KeyIsPayloadField ==
    /\ \A k \in DOMAIN store :
          LET rd == ReadAsset(store, 0, 1, k)
          IN  rd.err = "nil" /\ rd.val.allowlist = k
    /\ LET all == GetAllAssets(store, 0)
       IN  /\ all.err = "nil"
           /\ \A i \in 1..Len(all.val) : all.val[i].allowlist = ScanKeys(store)[i]

\* the positions of the calls of an invocation that are one of ops
CallsOf(inv, ops) == { i \in 1..Len(inv.calls) : inv.calls[i].op \in ops }

\* C12: every GetAll whose range scan opened closes the iterator exactly
\* once, as the last thing it does, whether it returns normally, with an
\* empty result, after a failed Next or after a value that fails to decode.
C12_CursorReleased ==
    (last.name = "GetAllAssets" /\ last.calls[1].ok) =>
        /\ Cardinality(CallsOf(last, {"Close"})) = 1
        /\ last.calls[Len(last.calls)].op = "Close"
        /\ last.calls[1].op = "GetStateByRange"

C12_Witness ==
    /\ last.name = "GetAllAssets" /\ last.err = "Decoding"
    /\ CallsOf(last, {"Next"}) # {} /\ CallsOf(last, {"Close"}) # {}

\* the calls that go to the store (Close only releases the iterator)
StoreOps == {"GetState", "PutState", "DelState", "GetStateByRange", "Next"}

\* the successful reads of the invocation that delivered bytes json.Unmarshal
\* rejects (only Read, Transfer and GetAll decode what they read)
MalformedReads(inv) ==
    IF inv.name \in {"ReadAsset", "TransferAsset", "GetAllAssets"}
    THEN { i \in CallsOf(inv, {"GetState", "Next"}) :
             /\ inv.calls[i].ok
             /\ inv.calls[i].key \in DOMAIN store
             /\ store[inv.calls[i].key] = Malformed }
    ELSE {}

\* C13: errors are surfaced at once: when a store call or a decode step
\* fails the invocation returns a failure and issues no further store call
\* (no retry), and a GetAll that fails mid-scan returns no list at all.
C13_ErrorsSurfaced ==
    /\ \A i \in CallsOf(last, StoreOps) \ { j \in CallsOf(last, StoreOps) : last.calls[j].ok } :
          /\ last.err \notin {"nil", "Decoding"}
          /\ \A j \in CallsOf(last, StoreOps) : j <= i
    /\ \A i \in MalformedReads(last) :
          /\ last.err = "Decoding"
          /\ \A j \in CallsOf(last, StoreOps) : j <= i
    /\ last.err = "Decoding" => MalformedReads(last) # {}
    /\ (last.name = "GetAllAssets" /\ last.err # "nil") => last.val = <<>>

C13_Witness ==
    /\ last.name = "GetAllAssets" /\ last.err = "Decoding" /\ last.val = <<>>
    /\ Cardinality(CallsOf(last, {"Next"})) >= 2
    /\ Cardinality(MalformedReads(last)) = 1

\* C14: Initialize is all-or-nothing: when writing one of the six seeds
\* fails, Initialize returns a failure and the store afterwards is the store
\* before it, with none of the seeds already written by that invocation.
C14_InitAllOrNothing ==
    [][ (last'.name = "InitLedger" /\ ~NoFault(last')) =>
           /\ last'.err # "nil"
           /\ store' = store ]_vars

C14_Witness ==
    /\ last.name = "InitLedger" /\ last.err = "StoreWrite"
    /\ Len(last.calls) >= 3
    /\ "www.google.com" \notin DOMAIN store

\* every stored value decodes
WellFormed(state) == \A k \in DOMAIN state : state[k] # Malformed

\* what GetAll is to return on state: the decoding of each value, in the
\* order the range scan yields the keys
Decoded(state) ==
    [i \in 1..Len(ScanKeys(state)) |-> Unmarshal(state[ScanKeys(state)[i]]).asset]

\* C15: with n keys present, all with well-formed values, GetAll succeeds
\* and returns exactly n records, the i-th being the decoding of the value of
\* the i-th key in iteration order; on an empty store it succeeds with an
\* empty result.
C15_GetAllInOrder ==
    WellFormed(store) =>
        /\ LET all == GetAllAssets(store, 0)
           IN  /\ all.err = "nil"
               /\ Len(all.val) = Cardinality(DOMAIN store)
               /\ all.val = Decoded(store)
        /\ (last.name = "GetAllAssets" /\ NoFault(last)) =>
              /\ last.err = "nil"
              /\ Len(last.val) = Cardinality(DOMAIN store)
              /\ last.val = Decoded(store)
              /\ \A i \in 1..Len(last.val) : last.calls[i + 1].key = ScanKeys(store)[i]

C15_Witness ==
    /\ last.name = "GetAllAssets" /\ last.err = "nil"
    /\ Len(last.val) >= 3 /\ "www.test.com" \in DOMAIN store

\* the key space
Keys == { KeyOrder[i] : i \in 1..Len(KeyOrder) }

KeyedOps == {"CreateAsset", "UpdateAsset", "DeleteAsset", "TransferAsset"}

ReadOnlyOps == {"ReadAsset", "AssetExists", "GetAllAssets"}

\* C16: a Create, Update, Delete or Transfer called with key k changes at
\* most the entry at k: every other key keeps its presence and its value;
\* Read, Exists and GetAll issue no put and no delete and leave the store
\* as it is.
C16_Frame ==
    [][ /\ last'.name \in KeyedOps =>
             /\ \A k \in Keys \ {last'.key} :
                   /\ (k \in DOMAIN store') = (k \in DOMAIN store)
                   /\ k \in DOMAIN store => store'[k] = store[k]
             /\ \A i \in CallsOf(last', {"PutState", "DelState"}) :
                   last'.calls[i].key = last'.key
        /\ last'.name \in ReadOnlyOps =>
             /\ store' = store
             /\ CallsOf(last', {"PutState", "DelState"}) = {} ]_vars

C16_Witness ==
    /\ Succeeded("TransferAsset") /\ last.key = "www.google.com"
    /\ "www.test.com" \in DOMAIN store /\ store["www.test.com"] = Malformed
    /\ "" \notin DOMAIN store

\* C17: a Create, Read, Update, Delete or Transfer that returns an error
\* leaves the store as it was: it has issued no successful write, because
\* each of them issues at most one write, as its last store call.
C17_FailedOpNoWrite ==
    [][ last'.name \in KeyedOps \cup {"ReadAsset"} =>
           /\ last'.err # "nil" =>
                 /\ store' = store
                 /\ \A i \in CallsOf(last', {"PutState", "DelState"}) : ~last'.calls[i].ok
           /\ Cardinality(CallsOf(last', {"PutState", "DelState"})) <= 1
           /\ \A i \in CallsOf(last', {"PutState", "DelState"}) :
                 \A j \in CallsOf(last', StoreOps) : j <= i ]_vars

C17_Witness ==
    /\ last.name = "TransferAsset" /\ last.err = "StoreWrite"
    /\ CallsOf(last, {"PutState"}) = {2}
    /\ last.key \in DOMAIN store

\* C18: in every Create, Update, Delete and Transfer the only key passed to
\* put or delete is the key parameter, after a successful get of that key in
\* the same invocation; Initialize writes keys it has not read, and it is the
\* only operation that does.
C18_ReadBeforeWrite ==
    /\ last.name \in KeyedOps =>
          \A i \in CallsOf(last, {"PutState", "DelState"}) :
             /\ last.calls[i].key = last.key
             /\ \E j \in CallsOf(last, {"GetState"}) :
                   j < i /\ last.calls[j].key = last.calls[i].key /\ last.calls[j].ok
    /\ last.name \in ReadOnlyOps => CallsOf(last, {"PutState", "DelState"}) = {}
    /\ last.name = "InitLedger" =>
          /\ CallsOf(last, {"PutState"}) = 1..Len(last.calls)
          /\ Len(last.calls) >= 1

C18_Witness ==
    /\ Succeeded("CreateAsset") /\ last.key = "www.test.com"
    /\ CallsOf(last, {"GetState"}) = {1} /\ CallsOf(last, {"PutState"}) = {2}

Committed(name) == { t \in Txs : txs[t].name = name /\ txs[t].pc = "committed" }

\* C19: with the host committing a transaction only if no key it read was
\* written since: two Create(k) that both saw k absent never both commit; of
\* two Transfer(k) that read the same version at most one commits; and each
\* committed Transfer returns the attribute1 put by the write committed just
\* before it, so no committed write is lost.
C19_Interleaved ==
    /\ Cardinality(Committed("CreateAsset")) <= 1
    /\ \A t1, t2 \in Committed("TransferAsset") :
          t1 # t2 => txs[t1].readVer # txs[t2].readVer
    /\ \A t \in Committed("TransferAsset") : txs[t].val = txs[t].prevWritten

\* the interleaving alone: at most one Create commits, and two Transfers
\* that read the same version do not both commit
AtMostOneCommits ==
    /\ Cardinality(Committed("CreateAsset")) <= 1
    /\ \A t1, t2 \in Committed("TransferAsset") :
          t1 # t2 => txs[t1].readVer # txs[t2].readVer

====
